---- MODULE Spec2Model ----
(***************************************************************************)
(* Model of the maXTouch firmware-flash bootloader driver                  *)
(* (src/src/tools/mxt_app/bootloader.c).                                   *)
(*                                                                         *)
(* One flash session, mxt_flash_firmware(filename, version, i2c_adapter,   *)
(* i2c_address), is a sequential program; pc is its position.  The chip,   *)
(* the transport and the libmaxtouch calls are the environment: every      *)
(* status byte, every read/write result and every scan/info result is      *)
(* chosen nondeterministically.  log is a history of the transport         *)
(* operations and of the returns of mxt_check_bootloader.                  *)
(***************************************************************************)
EXTENDS Integers, Sequences, FiniteSets, TLC

(***************************************************************************)
(* Program constants                                                       *)
(***************************************************************************)
MXT_UNLOCK_CMD_MSB == 170

MXT_UNLOCK_CMD_LSB == 220

MXT_WAITING_BOOTLOAD_CMD == 192

MXT_WAITING_FRAME_DATA == 128

MXT_FRAME_CRC_CHECK == 2

MXT_FRAME_CRC_FAIL == 3

MXT_FRAME_CRC_PASS == 4

MXT_APP_CRC_FAIL == 64

MXT_BOOT_STATUS_MASK == 63

FIRMWARE_BUFFER_SIZE == 1024

\* EOF of <stdio.h>, as returned by get_hex_value and sscanf
EOF == -1

(***************************************************************************)
(* Bounds of the model                                                     *)
(***************************************************************************)
\* number of frames of the longest well-formed image
MaxFrames == 2

\* the history keeps the first MaxLog events of a session
MaxLog == 10

\* the frame counter of send_frames is kept up to MaxFrameNo
MaxFrameNo == 3

\* number of frames of the long image, sent with the frame counter kept up
\* to LongFrames + 1
LongFrames == 20

\* lines of the longest kernel log beyond the number the message list is
\* meant to take
MaxExtraLines == 2

\* incidents of one session: transient statuses the chip reports and
\* transport reads and writes that fail
MaxIncidents == 1

\* a transient status is reported for at most MaxRepeat consecutive reads
MaxRepeat == 2

(***************************************************************************)
(* Bit operations on unsigned bytes                                        *)
(***************************************************************************)
RECURSIVE BitAnd(_, _)
BitAnd(a, b) ==
  IF a = 0 \/ b = 0 THEN 0
  ELSE (IF a % 2 = 1 /\ b % 2 = 1 THEN 1 ELSE 0) + 2 * BitAnd(a \div 2, b \div 2)

RECURSIVE BitOr(_, _)
BitOr(a, b) ==
  IF a = 0 THEN b
  ELSE IF b = 0 THEN a
  ELSE (IF a % 2 = 1 \/ b % 2 = 1 THEN 1 ELSE 0) + 2 * BitOr(a \div 2, b \div 2)

\* ~x restricted to the width of an unsigned char
BitNot8(x) == 255 - x

(***************************************************************************)
(* The firmware image: a text file of characters.  A character is a hex    *)
(* digit (its value 0..15), a character that is no hex digit and no white  *)
(* space (NonHexChar), or white space (SpaceChar).                         *)
(***************************************************************************)
NonHexChar == 16

SpaceChar == 17

IsHexChar(c) == c \in 0..15

\* the two characters that print byte b ("%02X")
HexChars(b) == << b \div 16, b % 16 >>

\* the text of a sequence of bytes: character 2k-1 and 2k print byte k
HexText(bytes) ==
  [c \in 1..(2 * Len(bytes)) |-> HexChars(bytes[(c + 1) \div 2])[2 - (c % 2)]]

\* frame k of the test images: a two-byte big-endian count of the bytes that
\* follow, k-1 payload bytes, two CRC bytes
FrameBytes(k) ==
  << 0, k + 1 >> \o [j \in 1..(k - 1) |-> 160 + j] \o << 192 + k, k >>

RECURSIVE ImageBytes(_)
ImageBytes(n) ==
  IF n = 0 THEN << >> ELSE ImageBytes(n - 1) \o FrameBytes(n)

FullImage(n) == HexText(ImageBytes(n))

\* a header declaring 0x03FF following bytes: frame size 1025
BigImage == HexText(<< 3, 255, 1, 2 >>)

\* a frame in the layout of the format description: payload length 0, two CRC bytes
ZeroPayloadImage == HexText(<< 0, 0, 193, 1 >>)

\* a frame whose second unit is no pair of hex digits
BadHexImage == HexText(<< 0 >>) \o << NonHexChar, 10 >>

\* a header declaring 0x03FE following bytes: frame size 1024
MaxImage == HexText(<< 3, 254 >> \o [j \in 1..1022 |-> 0])

\* the longest well-formed image cut after l characters: in the second
\* header byte, in the CRC of frame 1, in the payload of frame 2
CutLengths == { 3, 6, 13 }

RECURSIVE Repeated(_, _)
Repeated(bytes, n) ==
  IF n = 0 THEN << >> ELSE bytes \o Repeated(bytes, n - 1)

\* LongFrames frames, each frame 1 of the test images
LongImage == HexText(Repeated(FrameBytes(1), LongFrames))

\* how far the frame counter is kept in a session that sends image f
FrameNoKept(f) == IF f = LongImage THEN LongFrames + 1 ELSE MaxFrameNo

Images ==
  { FullImage(n) : n \in 0..MaxFrames }
    \cup { SubSeq(FullImage(MaxFrames), 1, l) : l \in CutLengths }
    \cup { BigImage, MaxImage, ZeroPayloadImage, BadHexImage }

(***************************************************************************)
(* Inputs and environment                                                  *)
(***************************************************************************)
\* version strings; "" is the empty string of the command line
Versions == { "1.0.AA", "2.0.AB" }

\* values an uninitialised int of the stack frame may hold
Garbage == { -2, 2 }

\* values an uninitialised unsigned char may hold
GarbageBytes == { 0, 255 }

\* i2c_address arguments: none, application-mode addresses, a bootloader address
Addresses == { 74, 38 }

\* what sysfs_get_i2c_address() may return: an address lookup_bootloader_addr
\* does not list (with a listed one the session goes on as with that address
\* given as argument)
SysfsAddresses == { 32 }

\* << i2c_adapter, i2c_address >> arguments
Arguments == { << -1, 74 >> } \cup { << 0, a >> : a \in Addresses }

\* The sessions: every combination of arguments, connection and stack
\* contents with the image of no frame; an application-mode address and an
\* expected version with the image of one frame; every image with a
\* bootloader address (send_frames reads nothing of the session but ctx->fp).
Sessions ==
  { [version |-> v, arg |-> a, device |-> d, garbage |-> g, file |-> FullImage(0)] :
      v \in { "", "2.0.AB" }, a \in Arguments,
      d \in { "E_UNCONNECTED", "E_I2C_DEV" }, g \in Garbage }
    \cup { [version |-> "2.0.AB", arg |-> << 0, 74 >>, device |-> "E_I2C_DEV",
            garbage |-> 2, file |-> FullImage(1)] }
    \cup { [version |-> "", arg |-> << 0, 38 >>, device |-> "E_I2C_DEV",
            garbage |-> 2, file |-> f] : f \in Images }

\* the long image with a bootloader address
LongSession ==
  [version |-> "", arg |-> << 0, 38 >>, device |-> "E_I2C_DEV", garbage |-> 2,
   file |-> LongImage]

\* a process that uses the kernel-log messages and flashes nothing
NoSession ==
  [version |-> "", arg |-> << -1, 74 >>, device |-> "E_UNCONNECTED", garbage |-> 2,
   file |-> FullImage(0)]

FamilyIds == { 161, 162 }

DeviceTypes == { "E_UNCONNECTED", "E_SYSFS", "E_SYSFS_DEBUG_NG", "E_USB", "E_I2C_DEV" }

\* the devices mxt_scan may find once the chip has been reset
RescanTypes == { "E_USB" }

\* status bytes the chip may report
StatusBytes == { 0, 2, 3, 4, 64, 128, 192, 224 }

VARIABLES
  pc,                       \* position in mxt_flash_firmware and its callees
  result,                   \* return value of mxt_flash_firmware
  version,                  \* argument version
  i2c_adapter,              \* argument i2c_adapter
  i2c_address,              \* argument i2c_address
  device_type,              \* what mxt_get_device_type() returns
  slave_address,            \* the i2c slave the transport talks to
  file,                     \* contents of the firmware file
  fp_open,                  \* ctx.fp is an open stream
  fpos,                     \* characters of the file consumed
  feof,                     \* the stream's end-of-file indicator
  have_bootloader_version,  \* ctx.have_bootloader_version
  extended_id_mode,         \* ctx.extended_id_mode
  curr_version,             \* ctx.curr_version
  bootloader_address,       \* ctx.bootloader_address
  appmode_address,          \* ctx.appmode_address
  check_version,            \* ctx.check_version
  new_version,              \* ctx.new_version
  buffer,                   \* send_frames: buffer[0 .. frame_size-1]
  frame_size,               \* send_frames: frame_size
  frame,                    \* send_frames: frame
  frame_retry,              \* send_frames: frame_retry
  ret,                      \* send_frames: ret
  state,                    \* mxt_check_bootloader: state
  val_read,                 \* mxt_check_bootloader: val as read from the chip by
                            \* the call that has just returned (0 otherwise)
  repeats,                  \* consecutive goto recheck of the call under way
  parsed,                   \* history: outcome of the last frame read
  frame_pos,                \* history: file position where that read began
  family_id,                \* history: info_block.id->family_id read at line 458
  log,                      \* history of transport operations
  incidents,                \* transient statuses and transport failures so far
  reset_issued,             \* history: mxt_reset_chip(true) was called
  pre_version,              \* history: version read before the reset
  post_version,             \* history: version read after the frames
  opened,                   \* history: fopen succeeded
  sent_level,               \* level of the last "Frame %d: Sent %d bytes" event
  passed,                   \* history: frames that passed their CRC handshake
  dmesg_count,              \* dmesg.c: dmesg_count
  dmesg_list,               \* dmesg.c: the nodes reachable from dmesg_list
  dmesg_ptr,                \* dmesg.c: dmesg_ptr, NULL or the node it points to
  timestamp,                \* dmesg.c: timestamp
  mtimestamp,               \* dmesg.c: mtimestamp
  dmesg_pc,                 \* position in sysfs_get_msg_count
  klog,                     \* sysfs_get_msg_count: buffer, as lines
  klog_sp,                  \* sysfs_get_msg_count: lines of buffer consumed (sp)
  cur_dmesg,                \* sysfs_get_msg_count: cur_dmesg
  oom,                      \* the pass of the loop whose malloc returns NULL
  msg_count,                \* history: what the last call of sysfs_get_msg_count
                            \* returned, -1 while a call is under way
  msg_string,               \* history: what sysfs_get_msg_string returned last
                            \* since then
  served,                   \* history: nodes read since then
  allocated                 \* history: nodes allocated and not freed

inputs == << version, i2c_adapter, i2c_address >>

filevars == << file, fp_open, fpos, feof, opened >>

ctxid == << have_bootloader_version, extended_id_mode >>

ctxaddr == << bootloader_address, appmode_address >>

ctxver == << curr_version, check_version, new_version >>

locals == << buffer, frame_size, frame, frame_retry, ret, state >>

checkvars == << val_read, repeats >>

readhist == << parsed, frame_pos >>

hist == << log, incidents, reset_issued, pre_version, post_version >>

env == << device_type, slave_address >>

progress == << sent_level, passed >>

dmesg_globals == << dmesg_count, dmesg_list, dmesg_ptr, timestamp, mtimestamp >>

dmesg_locals == << klog, klog_sp, cur_dmesg, oom >>

dmesg_hist == << msg_count, msg_string, served, allocated >>

dmesg == << dmesg_pc, dmesg_globals, dmesg_locals, dmesg_hist >>

flash ==
  << pc, result, inputs, filevars, ctxid, ctxaddr, ctxver, locals, checkvars,
     readhist, family_id, hist, env, progress >>

vars == << flash, dmesg >>

(***************************************************************************)
(* The kernel-log message list, libmaxtouch/sysfs/dmesg.c                  *)
(***************************************************************************)
\* (void *) 0
NULL == 0

\* a pointer to a node that has been freed
Dangling == -1

\* line 178: the number dmesg_count is compared with
MessageLimit == 500

\* One line of the kernel log, as the loop cuts it at a newline (lines
\* 139-152) and sscanf converts it (line 159): n the number of conversions
\* made, sec, msec and msg what the conversions made store.
Line(n, sec, msec, msg) == [n |-> n, sec |-> sec, msec |-> msec, msg |-> msg]

\* the messages with the string "MXT" in them
MxtMessages == { "MXT a", "MXT b", "? MXT" }

\* line 170: strstr(cur_dmesg.msg, "MXT") != 0
HasMxt(msg) == msg \in MxtMessages

\* A kernel log: the lines of head, then more lines "<6>[7.00000i] MXT a",
\* i = 1 .. more.
KernelLog(head, more) == [head |-> head, more |-> more]

Lines(b) == Len(b.head) + b.more

LineAt(b, i) ==
  IF i <= Len(b.head) THEN b.head[i] ELSE Line(3, 7, i - Len(b.head), "MXT a")

\* a line of a message, a line with a timestamp and nothing after it, a
\* line of another driver, a line in no format, two more messages
MixedLog ==
  KernelLog(<< Line(3, 1, 5, "MXT a"), Line(1, 3, 0, ""), Line(3, 3, 1, "usb"),
               Line(0, 0, 0, ""), Line(3, 2, 9, "MXT b"), Line(3, 4, 1, "MXT b") >>, 0)

\* the first line has a timestamp and no message
NoMessageLog == KernelLog(<< Line(2, 1, 1, ""), Line(3, 1, 2, "MXT a") >>, 0)

\* what klogctl may read
KernelLogs ==
  { KernelLog(<< >>, 0), MixedLog, NoMessageLog }
    \cup { KernelLog(<< >>, MessageLimit + x) : x \in 0..MaxExtraLines }

\* what the uninitialised cur_dmesg of the stack frame may hold
StackDmesg ==
  { [sec |-> 0, msec |-> 0, msg |-> "?"], [sec |-> 9, msec |-> 9, msg |-> "? MXT"] }

\* the pass of the loop whose malloc returns NULL: none, the second
OutOfMemory == { 0, 2 }

\* what get_uptime may store
Uptimes == { 7 }

\* lines 48-52, and no call under way
DmesgStart ==
  /\ dmesg_count = 0
  /\ dmesg_list = << >>
  /\ dmesg_ptr = NULL
  /\ timestamp = 0
  /\ mtimestamp = 0
  /\ dmesg_pc = "idle"
  /\ klog = KernelLog(<< >>, 0)
  /\ klog_sp = 0
  /\ cur_dmesg = [sec |-> 0, msec |-> 0, msg |-> "?"]
  /\ oom = 0
  /\ msg_count = -1
  /\ msg_string = "none"
  /\ served = 0
  /\ allocated = 0

(***************************************************************************)
(* History                                                                 *)
(***************************************************************************)
\* op: "check" (one pass of mxt_check_bootloader from the label recheck:
\*             st expected state, w the readiness wait made before the read
\*             ("none", "ready" or "timeout"), n bytes asked of the
\*             transport read, val the value returned, -1 included for a
\*             failed read, or RECHECK for a goto recheck)
\*     "unlock", "frame" (transport writes: data, val result; for a frame
\*             pos the file position and n the value of frame_retry)
Event(op, st, n, val, w, pos, data) ==
  [op |-> op, st |-> st, n |-> n, val |-> val, w |-> w, pos |-> pos, data |-> data]

Logged(l, e) == IF Len(l) < MaxLog THEN Append(l, e) ELSE l

\* The build is the one with HAVE_LIBUSB defined: without it mxt_scan finds
\* no USB device and the sessions are those below whose device is not E_USB.
\* The fields of ctx are those of an uninitialised stack object:
\* have_bootloader_version, extended_id_mode, check_version, new_version and
\* curr_version are written before they are read (lines 239, 240, 483-489,
\* 430), appmode_address and bootloader_address hold any value.
Started(S) ==
  /\ pc = "flash"
  /\ result = 0
  /\ \E s \in S :
       /\ version = s.version
       /\ i2c_adapter = s.arg[1]
       /\ i2c_address = s.arg[2]
       /\ device_type = s.device
       /\ bootloader_address = s.garbage
       /\ appmode_address = s.garbage
       /\ file = s.file
  /\ slave_address = 0
  /\ fp_open = FALSE
  /\ fpos = 0
  /\ feof = FALSE
  /\ opened = FALSE
  /\ have_bootloader_version = FALSE
  /\ extended_id_mode = FALSE
  /\ curr_version = ""
  /\ check_version = FALSE
  /\ new_version = ""
  /\ buffer = << >>
  /\ frame_size = 0
  /\ frame = 0
  /\ frame_retry = 0
  /\ ret = 0
  /\ state = 0
  /\ val_read = 0
  /\ repeats = 0
  /\ parsed = "none"
  /\ frame_pos = 0
  /\ family_id = 0
  /\ log = << >>
  /\ incidents = 0
  /\ reset_issued = FALSE
  /\ pre_version = ""
  /\ post_version = ""
  /\ sent_level = "none"
  /\ passed = 0
  /\ DmesgStart

Init == Started(Sessions)

\* a return of mxt_flash_firmware
Return(r) ==
  /\ pc' = "done"
  /\ result' = r

(***************************************************************************)
(* mxt_flash_firmware, lines 472-493: open the image, record the version   *)
(***************************************************************************)
FlashOpen ==
  /\ pc = "flash"
  /\ \/ /\ Return(-1)                                 \* fopen failed
        /\ UNCHANGED << filevars, ctxver >>
     \/ /\ fp_open' = TRUE
        /\ UNCHANGED file
        /\ opened' = TRUE
        /\ fpos' = 0
        /\ feof' = FALSE
        /\ IF version # ""
             THEN check_version' = TRUE /\ new_version' = version
             ELSE check_version' = FALSE /\ UNCHANGED new_version
        /\ pc' = "init_chip"
        /\ UNCHANGED << result, curr_version >>
  /\ UNCHANGED << inputs, ctxid, ctxaddr, locals, checkvars, readhist, family_id,
                  hist, env >>
  /\ UNCHANGED << progress, dmesg >>

(***************************************************************************)
(* lookup_bootloader_addr, lines 343-363, with the family id it reads      *)
(***************************************************************************)
\* the family id left out of the lookup
lookup_without_family(addr, fam) ==
  IF addr \in { 74, 75, 76, 77, 90, 91 } THEN addr - 38 ELSE -1

lookup_bootloader_addr(addr, fam) ==
  IF addr \in { 74, 75 } /\ fam >= 162 THEN addr - 36
  ELSE IF addr \in { 74, 75, 76, 77, 90, 91 } THEN addr - 38
  ELSE -1

\* info_block.id->family_id as line 349 reads it.  The session reads it
\* twice: at line 374, before mxt_get_info has filled the info block (any
\* value), and at line 458 (the chip's family id).
FamilyRead == FamilyIds

\* i2c_dev_set_address(adapter, address): the transport is i2c-dev from now on
\* (lines 456 and 497 test for E_I2C_DEV after it)
SetAddress(addr) ==
  /\ slave_address' = addr
  /\ device_type' = "E_I2C_DEV"

(***************************************************************************)
(* mxt_bootloader_init_chip, lines 370-386: an address was given           *)
(***************************************************************************)
InitChipAddress ==
  /\ pc = "init_chip"
  /\ i2c_adapter >= 0 /\ i2c_address > 0
  /\ \E fam \in FamilyRead :
       IF lookup_bootloader_addr(i2c_address, fam) = -1
         THEN /\ bootloader_address' = i2c_address
              /\ appmode_address' = -1
              /\ pc' = "flash_address"                \* return 0, line 380
              /\ UNCHANGED env
         ELSE /\ appmode_address' = i2c_address
              /\ SetAddress(i2c_address)
              /\ pc' = "get_info"
              /\ UNCHANGED bootloader_address
  /\ UNCHANGED << result, inputs, filevars, ctxid, ctxver, locals, checkvars,
                  readhist, family_id, hist >>
  /\ UNCHANGED << progress, dmesg >>

(***************************************************************************)
(* mxt_bootloader_init_chip, lines 387-421: scan for the chip              *)
(***************************************************************************)
InitChipScan ==
  /\ pc = "init_chip"
  /\ ~ (i2c_adapter >= 0 /\ i2c_address > 0)
  /\ \/ /\ Return(-1)                                 \* mxt_scan() < 1
        /\ UNCHANGED << ctxaddr, env >>
     \/ \E found \in DeviceTypes \ { "E_UNCONNECTED" } :
          CASE found \in { "E_SYSFS", "E_SYSFS_DEBUG_NG" } ->
                 \E a \in SysfsAddresses :
                   /\ appmode_address' = a
                   /\ SetAddress(a)
                   /\ pc' = "get_info"
                   /\ UNCHANGED << result, bootloader_address >>
            [] found = "E_USB" ->
                 /\ device_type' = found
                 /\ \/ pc' = "flash_address"          \* usb_is_bootloader()
                    \/ pc' = "get_info"
                 /\ UNCHANGED << result, ctxaddr, slave_address >>
            [] OTHER ->
                 /\ device_type' = found
                 /\ Return(-1)
                 /\ UNCHANGED << ctxaddr, slave_address >>
  /\ UNCHANGED << inputs, filevars, ctxid, ctxver, locals, checkvars, readhist,
                  family_id, hist >>
  /\ UNCHANGED << progress, dmesg >>

(***************************************************************************)
(* mxt_bootloader_init_chip, lines 423-442: info block and version gate    *)
(***************************************************************************)
\* the gate left out
VersionGateOff(chk, cur, new) == FALSE

\* line 433: check_version && !strcmp(curr_version, new_version)
VersionGate(chk, cur, new) == chk /\ cur = new

InitChipInfo ==
  /\ pc = "get_info"
  /\ \/ /\ Return(-1)                                 \* mxt_get_info() failed
        /\ UNCHANGED << curr_version, pre_version >>
     \/ \E v \in Versions :                           \* mxt_get_firmware_version
          /\ curr_version' = v
          /\ pre_version' = v
          /\ IF VersionGate(check_version, v, new_version)
               THEN Return(-1)
               ELSE pc' = "reset" /\ UNCHANGED result
  /\ UNCHANGED << inputs, filevars, ctxid, ctxaddr, check_version, new_version,
                  locals, checkvars, readhist, family_id, log, incidents,
                  reset_issued, post_version, device_type, slave_address >>
  /\ UNCHANGED << progress, dmesg >>

(***************************************************************************)
(* mxt_bootloader_init_chip, lines 444-463: reset into the bootloader      *)
(***************************************************************************)
InitChipReset ==
  /\ pc = "reset"
  /\ reset_issued' = TRUE
  /\ \/ /\ Return(-1)                                 \* mxt_reset_chip() < 0
        /\ UNCHANGED << bootloader_address, family_id >>
     \/ /\ IF device_type = "E_I2C_DEV"
             THEN \E fam \in FamilyRead :
                    /\ family_id' = fam
                    /\ bootloader_address' = lookup_bootloader_addr(appmode_address, fam)
             ELSE UNCHANGED << bootloader_address, family_id >>
        /\ pc' = "flash_address"
        /\ UNCHANGED result
  /\ UNCHANGED << inputs, filevars, ctxid, appmode_address, ctxver, locals,
                  checkvars, readhist, log, incidents, pre_version, post_version,
                  env >>
  /\ UNCHANGED << progress, dmesg >>

(***************************************************************************)
(* mxt_flash_firmware, lines 493-524: switch to the bootloader address     *)
(***************************************************************************)
FlashAddress ==
  /\ pc = "flash_address"
  /\ \/ /\ device_type = "E_I2C_DEV"
        /\ IF bootloader_address = -1
             THEN Return(-1) /\ UNCHANGED env
             ELSE /\ SetAddress(bootloader_address)
                  /\ pc' = "send_frames"
                  /\ UNCHANGED result
     \/ /\ device_type = "E_USB"
        /\ \/ pc' = "send_frames" /\ UNCHANGED << result, env >>   \* usb_is_bootloader()
           \/ Return(-1) /\ UNCHANGED env                          \* mxt_scan() < 1
           \/ /\ \E found \in RescanTypes : device_type' = found     \* mxt_scan() >= 1
              /\ pc' = "send_frames"
              /\ UNCHANGED << result, slave_address >>
     \/ /\ device_type \notin { "E_I2C_DEV", "E_USB" }
        /\ pc' = "send_frames"
        /\ UNCHANGED << result, env >>
  /\ UNCHANGED << inputs, filevars, ctxid, ctxaddr, ctxver, locals, checkvars,
                  readhist, family_id, hist >>
  /\ UNCHANGED << progress, dmesg >>

(***************************************************************************)
(* mxt_check_bootloader, lines 153-191: what one status byte leads to.     *)
(* RECHECK stands for "goto recheck"; any other value is the return value  *)
(* (0 when lines 193-209 are reached).                                     *)
(***************************************************************************)
RECHECK == 1

\* the status byte compared with the expected state as it is
CheckStatusExact(st, val) == IF val = st THEN 0 ELSE -2

CheckStatus(st, val) ==
  CASE st = MXT_WAITING_BOOTLOAD_CMD ->
         LET masked == BitAnd(val, BitNot8(MXT_BOOT_STATUS_MASK))
         IN  IF masked = MXT_APP_CRC_FAIL THEN RECHECK
             ELSE IF masked = MXT_WAITING_FRAME_DATA THEN -3
             ELSE IF masked # st THEN -2
             ELSE 0
    [] st = MXT_WAITING_FRAME_DATA ->
         IF val = MXT_FRAME_CRC_PASS THEN RECHECK
         ELSE IF BitAnd(val, BitNot8(MXT_BOOT_STATUS_MASK)) # st THEN -2
         ELSE 0
    [] st = MXT_FRAME_CRC_PASS ->
         IF val = MXT_FRAME_CRC_CHECK THEN RECHECK
         ELSE IF val = MXT_FRAME_CRC_FAIL THEN -4
         ELSE IF val # st THEN -2
         ELSE 0
    [] OTHER -> -2

\* line 196: if (bootloader_id | 0x20)
ExtendedIdTest(val) == BitOr(BitAnd(val, MXT_BOOT_STATUS_MASK), 32) # 0

\* three bytes asked whether or not the identity is latched
ThreeByteReadUnlatched(st) == extended_id_mode /\ st = MXT_WAITING_FRAME_DATA

\* lines 129-130: the read asks for three bytes
ThreeByteRead(st) ==
  (~ have_bootloader_version) /\ extended_id_mode /\ st = MXT_WAITING_FRAME_DATA

\* a readiness wait before every read
WaitsAlways(st) == TRUE

\* line 126: a readiness wait precedes the read
WaitsForChg(st) == st # MXT_WAITING_BOOTLOAD_CMD

\* where send_frames goes on after the call of mxt_check_bootloader(ctx, st)
Continuation(st) ==
  CASE st = MXT_WAITING_BOOTLOAD_CMD -> "unlock"
    [] st = MXT_WAITING_FRAME_DATA -> "write_frame"
    [] OTHER -> "check_crc"

\* wait_for_chg, lines 80-106: 0, or -1 when the CHG line of a USB device
\* stays asserted for 100 polls
wait_for_chg == IF device_type = "E_USB" THEN { 0, -1 } ELSE { 0 }

\* a timed-out wait is an incident
Incident(t) == IF WaitsForChg(state) /\ t = -1 THEN 1 ELSE 0

CheckEvent(st, r, t) ==
  Event("check", st, IF ThreeByteRead(st) THEN 3 ELSE 1, r,
        IF ~ WaitsForChg(st) THEN "none" ELSE IF t = 0 THEN "ready" ELSE "timeout",
        0, << >>)

(***************************************************************************)
(* mxt_check_bootloader, lines 125-210: one pass from the label recheck    *)
(* to a return or to the next goto recheck                                 *)
(***************************************************************************)
CheckBootloaderFail ==
  /\ pc = "check_bootloader"
  /\ \E t \in wait_for_chg :
       /\ incidents + Incident(t) < MaxIncidents
       /\ incidents' = incidents + Incident(t) + 1
       /\ log' = Logged(log, CheckEvent(state, -1, t))
  /\ ret' = -1
  /\ val_read' = 0
  /\ repeats' = 0
  /\ pc' = Continuation(state)
  /\ UNCHANGED << result, inputs, filevars, ctxid, ctxaddr, ctxver, buffer,
                  frame_size, frame, frame_retry, state, readhist, family_id,
                  reset_issued, pre_version, post_version, env >>
  /\ UNCHANGED << progress, dmesg >>

\* the chip reports a transient status: a new incident, or the transient
\* status of the read before, reported again
Transient == IF repeats = 0 THEN 1 ELSE 0

TransientAllowed(t) ==
  /\ incidents + Incident(t) + Transient <= MaxIncidents
  /\ repeats < MaxRepeat

CheckBootloaderRecheck ==
  /\ pc = "check_bootloader"
  /\ \E t \in wait_for_chg, val \in StatusBytes :
       /\ TransientAllowed(t)
       /\ CheckStatus(state, val) = RECHECK
       /\ have_bootloader_version' = (have_bootloader_version \/ ThreeByteRead(state))
       /\ log' = Logged(log, CheckEvent(state, RECHECK, t))
       /\ incidents' = incidents + Incident(t) + Transient
  /\ repeats' = repeats + 1
  /\ UNCHANGED << pc, result, inputs, filevars, extended_id_mode, ctxaddr, ctxver,
                  locals, val_read, readhist, family_id, reset_issued, pre_version,
                  post_version, env >>
  /\ UNCHANGED << progress, dmesg >>

CheckBootloaderReturn ==
  /\ pc = "check_bootloader"
  /\ \E t \in wait_for_chg, val \in StatusBytes :
       LET r == CheckStatus(state, val)
           have == have_bootloader_version \/ ThreeByteRead(state)
       IN  /\ r # RECHECK
           /\ incidents + Incident(t) <= MaxIncidents
           /\ incidents' = incidents + Incident(t)
           /\ ret' = r
           /\ val_read' = val
           /\ log' = Logged(log, CheckEvent(state, r, t))
           /\ IF r = 0 /\ ~ have /\ state = MXT_WAITING_BOOTLOAD_CMD
                THEN IF ExtendedIdTest(val)
                       THEN /\ extended_id_mode' = TRUE
                            /\ have_bootloader_version' = have
                       ELSE /\ have_bootloader_version' = TRUE
                            /\ UNCHANGED extended_id_mode
                ELSE /\ have_bootloader_version' = have
                     /\ UNCHANGED extended_id_mode
  /\ repeats' = 0
  /\ pc' = Continuation(state)
  /\ UNCHANGED << result, inputs, filevars, ctxaddr, ctxver, buffer, frame_size,
                  frame, frame_retry, state, readhist, family_id, reset_issued,
                  pre_version, post_version, env >>
  /\ UNCHANGED << progress, dmesg >>

(***************************************************************************)
(* get_hex_value, lines 212-228: the outcomes of one call at position pos. *)
(* ret is the return value, val the byte stored through ptr (NoByte when   *)
(* nothing is stored), pos and eof the stream afterwards.  sscanf("%x")    *)
(* skips white space, converts the hex digits it finds and leaves val      *)
(* unassigned when it finds none.                                          *)
(***************************************************************************)
NoByte == -1

Scanf(c0, c1) ==
  IF IsHexChar(c0)
    THEN IF IsHexChar(c1) THEN { [ret |-> 1, val |-> 16 * c0 + c1] }
         ELSE { [ret |-> 1, val |-> c0] }
  ELSE IF c0 = SpaceChar
    THEN IF IsHexChar(c1) THEN { [ret |-> 1, val |-> c1] }
         ELSE IF c1 = SpaceChar THEN { [ret |-> EOF, val |-> g] : g \in GarbageBytes }
         ELSE { [ret |-> 0, val |-> g] : g \in GarbageBytes }
  ELSE { [ret |-> 0, val |-> g] : g \in GarbageBytes }

get_hex_value(f, pos) ==
  IF pos + 2 <= Len(f)
    THEN { [ret |-> s.ret, val |-> s.val, pos |-> pos + 2, eof |-> FALSE] :
             s \in Scanf(f[pos + 1], f[pos + 2]) }
    ELSE { [ret |-> EOF, val |-> NoByte, pos |-> Len(f), eof |-> TRUE] }

\* end of file taken for a byte
TruncatedNever(r) == FALSE

\* line 296: if (ret == EOF)
Truncated(r) == r = EOF

\* the two CRC bytes counted on top of the bytes the header counts
FrameSizeWithTrailer(b0, b1) == (b0 * 256 + b1) + 4

\* lines 280-285: frame_size = (buffer[0] << 8) | buffer[1]; frame_size += 2
FrameSize(b0, b1) == (b0 * 256 + b1) + 2

\* a frame that fills the buffer refused
TooBigAtLimit(size) == size >= FIRMWARE_BUFFER_SIZE

\* line 287: if (frame_size > FIRMWARE_BUFFER_SIZE)
TooBig(size) == size > FIRMWARE_BUFFER_SIZE

\* lines 292-301: the loop for (i = 2; i < frame_size; i++) from index i on,
\* buf the bytes buffer[0 .. i-1].  Pass j of the loop calls get_hex_value at
\* position pos + 2 * (j - i), two characters on for every pass before it;
\* the loop ends at the first pass that finds EOF, or with the frame.
ReadPayload(f, pos, buf, i, size) ==
  LET Pass(j)  == get_hex_value(f, pos + 2 * (j - i))
      Stops    == { j \in i..(size - 1) : \E h \in Pass(j) : Truncated(h.ret) }
      last     == IF Stops = { } THEN size
                  ELSE CHOOSE j \in Stops : \A k \in Stops : j <= k
      Stored   == i..(last - 1)
      Free     == { j \in Stored : Cardinality(Pass(j)) > 1 }
      Bytes(c) == [k \in 1..(last - i) |->
                     LET hs == Pass(i + k - 1)
                     IN  IF Cardinality(hs) > 1 THEN c[i + k - 1]
                         ELSE (CHOOSE h \in hs : TRUE).val]
  IN  { IF last = size
          THEN [st |-> "frame", buf |-> buf \o Bytes(c),
                pos |-> pos + 2 * (size - i), eof |-> FALSE]
          ELSE LET h == CHOOSE x \in Pass(last) : TRUE
               IN  [st |-> "truncated", buf |-> buf \o Bytes(c),
                    pos |-> h.pos, eof |-> h.eof]
        : c \in [Free -> GarbageBytes] }

\* lines 269-302: the outcomes of reading one frame at position pos
ReadFrame(f, pos) ==
  UNION { IF h0.ret = EOF
            THEN { [st |-> "end", buf |-> << >>, pos |-> h0.pos, eof |-> h0.eof] }
            ELSE UNION { IF h1.ret = EOF
                           THEN { [st |-> "truncated", buf |-> << h0.val >>,
                                   pos |-> h1.pos, eof |-> h1.eof] }
                           ELSE LET size == FrameSize(h0.val, h1.val)
                                IN  IF TooBig(size)
                                      THEN { [st |-> "too_big", buf |-> << h0.val, h1.val >>,
                                              pos |-> h1.pos, eof |-> FALSE] }
                                      ELSE ReadPayload(f, h1.pos, << h0.val, h1.val >>, 2, size)
                         : h1 \in get_hex_value(f, h0.pos) }
          : h0 \in get_hex_value(f, pos) }

(***************************************************************************)
(* send_frames, lines 232-242                                              *)
(***************************************************************************)
SendFramesBegin ==
  /\ pc = "send_frames"
  /\ have_bootloader_version' = FALSE
  /\ extended_id_mode' = FALSE
  /\ frame_size' = 0
  /\ frame_retry' = 0
  /\ state' = MXT_WAITING_BOOTLOAD_CMD
  /\ pc' = "check_bootloader"
  /\ UNCHANGED << result, inputs, filevars, ctxaddr, ctxver, buffer, frame, ret,
                  checkvars, readhist, family_id, hist, env >>
  /\ UNCHANGED << progress, dmesg >>

\* unlock_bootloader, lines 108-116: the bytes written
UnlockBytes == << MXT_UNLOCK_CMD_LSB, MXT_UNLOCK_CMD_MSB >>

(***************************************************************************)
(* send_frames, lines 243-266                                              *)
(***************************************************************************)
\* unlock unless the bootloader reported itself unlocked
UnlocksUnlessFound(r) == r # -3

\* line 243: if (ret == 0)
Unlocks(r) == r = 0

SendFramesUnlock ==
  /\ pc = "unlock"
  /\ IF Unlocks(ret)
       THEN \/ /\ log' = Logged(log, Event("unlock", 0, 2, 0, "none", 0, UnlockBytes))
               /\ frame' = 1
               /\ pc' = "frame_loop"
               /\ UNCHANGED << result, incidents >>
            \/ /\ incidents < MaxIncidents
               /\ incidents' = incidents + 1
               /\ log' = Logged(log, Event("unlock", 0, 2, -1, "none", 0, UnlockBytes))
               /\ Return(-1)
               /\ UNCHANGED frame
       ELSE IF ret = -3
         THEN /\ frame' = 1
              /\ pc' = "frame_loop"
              /\ UNCHANGED << result, log, incidents >>
         ELSE /\ Return(-1)
              /\ UNCHANGED << frame, log, incidents >>
  /\ val_read' = 0
  /\ UNCHANGED << inputs, filevars, ctxid, ctxaddr, ctxver, buffer, frame_size,
                  frame_retry, ret, state, repeats, readhist, family_id,
                  reset_issued, pre_version, post_version, env >>
  /\ UNCHANGED << progress, dmesg >>

(***************************************************************************)
(* send_frames, lines 268-304: the loop test, the frame read from the      *)
(* image when frame_retry is 0, the call for WAITING_FRAME_DATA            *)
(***************************************************************************)
\* a frame read from the image on every pass
ReadsNewFrameAlways(retry) == TRUE

\* line 269: if (frame_retry == 0)
ReadsNewFrame(retry) == retry = 0

SendFramesRead ==
  /\ pc = "frame_loop"
  /\ IF feof
       THEN /\ pc' = "close"
            /\ UNCHANGED << result, fpos, feof, buffer, frame_size, state, readhist >>
       ELSE IF ReadsNewFrame(frame_retry)
         THEN \E r \in ReadFrame(file, fpos) :
                /\ fpos' = r.pos
                /\ feof' = r.eof
                /\ parsed' = r.st
                /\ frame_pos' = fpos
                /\ CASE r.st = "end" ->
                          /\ pc' = "close"
                          /\ UNCHANGED << result, buffer, frame_size, state >>
                     [] r.st = "frame" ->
                          /\ buffer' = r.buf
                          /\ frame_size' = Len(r.buf)
                          /\ state' = MXT_WAITING_FRAME_DATA
                          /\ pc' = "check_bootloader"
                          /\ UNCHANGED result
                     [] OTHER ->
                          /\ buffer' = r.buf
                          /\ Return(-1)
                          /\ UNCHANGED << frame_size, state >>
         ELSE /\ state' = MXT_WAITING_FRAME_DATA
              /\ pc' = "check_bootloader"
              /\ UNCHANGED << result, fpos, feof, buffer, frame_size, readhist >>
  /\ UNCHANGED << inputs, file, fp_open, opened, ctxid, ctxaddr, ctxver, frame,
                  frame_retry, ret, checkvars, family_id, hist, env >>
  /\ UNCHANGED << progress, dmesg >>

(***************************************************************************)
(* send_frames, lines 304-314: write the frame, call for FRAME_CRC_PASS    *)
(***************************************************************************)
\* only a failed read taken for a failure
HandshakeFailedReadOnly(r) == r = -1

\* line 304: if (mxt_check_bootloader(ctx, MXT_WAITING_FRAME_DATA) < 0)
HandshakeFailed(r) == r < 0

SendFramesWrite ==
  /\ pc = "write_frame"
  /\ IF HandshakeFailed(ret)
       THEN /\ Return(-1)
            /\ UNCHANGED << log, incidents, state >>
       ELSE /\ \/ /\ log' = Logged(log, Event("frame", 0, frame_retry, 0, "none", fpos,
                                             SubSeq(buffer, 1, frame_size)))
                  /\ UNCHANGED incidents
               \/ /\ incidents < MaxIncidents
                  /\ incidents' = incidents + 1
                  /\ log' = Logged(log, Event("frame", 0, frame_retry, -1, "none", fpos,
                                             SubSeq(buffer, 1, frame_size)))
            /\ state' = MXT_FRAME_CRC_PASS
            /\ pc' = "check_bootloader"
            /\ UNCHANGED result
  /\ val_read' = 0
  /\ UNCHANGED << inputs, filevars, ctxid, ctxaddr, ctxver, buffer, frame_size,
                  frame, frame_retry, ret, repeats, readhist, family_id,
                  reset_issued, pre_version, post_version, env >>
  /\ UNCHANGED << progress, dmesg >>

(***************************************************************************)
(* send_frames, lines 315-332: retry or next frame                         *)
(***************************************************************************)
\* lines 326-330: the level of the event of a frame that passed, f the
\* counter after line 325
SentLevel(f) == IF f % 20 = 0 THEN "LOG_INFO" ELSE "LOG_VERBOSE"

SendFramesCrc ==
  /\ pc = "check_crc"
  /\ IF ret # 0
       THEN IF frame_retry > 0
              THEN Return(-1) /\ UNCHANGED << frame, frame_retry, progress >>
              ELSE /\ frame_retry' = frame_retry + 1
                   /\ pc' = "frame_loop"
                   /\ UNCHANGED << result, frame, progress >>
       ELSE /\ frame' = IF frame < FrameNoKept(file) THEN frame + 1 ELSE frame
            /\ passed' = IF frame < FrameNoKept(file) THEN passed + 1 ELSE passed
            /\ sent_level' = SentLevel(frame')
            /\ pc' = "frame_loop"
            /\ UNCHANGED << result, frame_retry >>
  /\ val_read' = 0
  /\ UNCHANGED << inputs, filevars, ctxid, ctxaddr, ctxver, buffer, frame_size,
                  ret, state, repeats, readhist, family_id, hist, env >>
  /\ UNCHANGED dmesg

(***************************************************************************)
(* send_frames, lines 334-340: close the image                             *)
(***************************************************************************)
SendFramesClose ==
  /\ pc = "close"
  /\ fp_open' = FALSE
  /\ pc' = "sent"
  /\ UNCHANGED << result, inputs, file, fpos, feof, opened, ctxid, ctxaddr, ctxver,
                  locals, checkvars, readhist, family_id, hist, env >>
  /\ UNCHANGED << progress, dmesg >>

(***************************************************************************)
(* mxt_flash_firmware, lines 524-576: after the frames                     *)
(***************************************************************************)
\* any version accepted
VersionVerifiedAny(cur, new) == TRUE

\* line 567: !strcmp(ctx.curr_version, ctx.new_version)
VersionVerified(cur, new) == cur = new

FlashVerify ==
  /\ pc = "sent"
  /\ IF appmode_address < 0
       THEN /\ Return(0)
            /\ UNCHANGED << curr_version, post_version, env >>
       ELSE \E found \in RescanTypes :
            /\ CASE device_type = "E_I2C_DEV" -> SetAddress(appmode_address)
                 [] device_type = "E_USB" ->                       \* mxt_scan() >= 1
                      device_type' = found /\ UNCHANGED slave_address
                 [] OTHER -> UNCHANGED << device_type, slave_address >>
            /\ \/ /\ device_type = "E_USB"                         \* mxt_scan() < 1
                  /\ Return(-1)
                  /\ UNCHANGED << curr_version, post_version >>
               \/ /\ Return(-1)                                    \* mxt_get_info() failed
                  /\ UNCHANGED << curr_version, post_version >>
               \/ \E v \in Versions :
                    /\ curr_version' = v
                    /\ post_version' = v
                    /\ IF ~ check_version THEN Return(0)
                       ELSE IF VersionVerified(v, new_version) THEN Return(0)
                       ELSE Return(-1)
  /\ UNCHANGED << inputs, filevars, ctxid, ctxaddr, check_version, new_version,
                  locals, checkvars, readhist, family_id, log, incidents,
                  reset_issued, pre_version >>
  /\ UNCHANGED << progress, dmesg >>

Next ==
  \/ FlashOpen
  \/ InitChipAddress
  \/ InitChipScan
  \/ InitChipInfo
  \/ InitChipReset
  \/ FlashAddress
  \/ SendFramesBegin
  \/ CheckBootloaderFail
  \/ CheckBootloaderRecheck
  \/ CheckBootloaderReturn
  \/ SendFramesUnlock
  \/ SendFramesRead
  \/ SendFramesWrite
  \/ SendFramesCrc
  \/ SendFramesClose
  \/ FlashVerify

Spec == Init /\ [][Next]_vars

\* every transport call returns: the session takes its next step
FairSpec == Spec /\ WF_vars(Next)

\* the sessions, and the session that sends the long image
ProgressInit == Started(Sessions \cup { LongSession })

ProgressSpec == ProgressInit /\ [][Next]_vars

(***************************************************************************)
(* dmesg.c: sysfs_get_msg_count, lines 114-136: read the kernel log and    *)
(* empty the list                                                          *)
(***************************************************************************)
\* lines 87-109: dmesg_list_empty; a pointer into the list is left dangling
dmesg_list_empty ==
  IF dmesg_list = << >>
    THEN UNCHANGED << dmesg_list, dmesg_count, dmesg_ptr, allocated >>
    ELSE /\ dmesg_list' = << >>
         /\ dmesg_count' = 0
         /\ allocated' = allocated - Len(dmesg_list)
         /\ dmesg_ptr' = IF dmesg_ptr = NULL THEN NULL ELSE Dangling

GetMsgCountRead ==
  /\ dmesg_pc = "idle"
  /\ \/ /\ msg_count' = -1                                        \* op < 0
        /\ UNCHANGED << dmesg_pc, dmesg_globals, dmesg_locals, msg_string,
                        served, allocated >>
     \/ \E b \in KernelLogs, c \in StackDmesg, o \in OutOfMemory :
          /\ klog' = b
          /\ klog_sp' = 0
          /\ cur_dmesg' = c
          /\ oom' = o
          /\ dmesg_list_empty
          /\ dmesg_pc' = "loop"
          /\ msg_count' = -1
          /\ msg_string' = "none"
          /\ served' = 0
          /\ UNCHANGED << timestamp, mtimestamp >>
  /\ UNCHANGED flash

(***************************************************************************)
(* sysfs_get_msg_count, lines 139-184: one pass of the loop                *)
(***************************************************************************)
\* lines 154-159: cur_dmesg after sscanf of line l; a field that is not
\* converted keeps what it held
Scanned(l, cur) ==
  [sec |-> IF l.n >= 1 THEN l.sec ELSE 0,
   msec |-> IF l.n >= 2 THEN l.msec ELSE 0,
   msg |-> IF l.n >= 3 THEN l.msg ELSE cur.msg]

\* lines 166-167
Newer(cur) ==
  \/ cur.sec > timestamp
  \/ cur.sec = timestamp /\ cur.msec > mtimestamp

\* lines 63-66: the node made of a message; msec of the node is never
\* written; at the line of the kernel log the message was read at
Node(cur, at) == [msg |-> cur.msg, sec |-> cur.msec, at |-> at]

\* lines 56-83: dmesg_list_add
dmesg_list_add(cur, at) ==
  IF oom = at
    THEN UNCHANGED << dmesg_list, dmesg_count, allocated >>       \* line 61
    ELSE /\ dmesg_list' = Append(dmesg_list, Node(cur, at))
         /\ dmesg_count' = dmesg_count + 1
         /\ allocated' = allocated + 1

\* line 178
LimitReached(count) == count > MessageLimit

GetMsgCountLine ==
  /\ dmesg_pc = "loop"
  /\ klog_sp < Lines(klog)                                        \* line 139
  /\ LET l == LineAt(klog, klog_sp + 1)
         cur == Scanned(l, cur_dmesg)
     IN /\ klog_sp' = klog_sp + 1
        /\ cur_dmesg' = cur
        /\ IF l.n > 0 /\ Newer(cur) /\ HasMxt(cur.msg)
             THEN dmesg_list_add(cur, klog_sp + 1)
             ELSE UNCHANGED << dmesg_list, dmesg_count, allocated >>
        /\ dmesg_pc' = IF LimitReached(dmesg_count') \/ klog_sp' >= Lines(klog)
                         THEN "return" ELSE "loop"
  /\ UNCHANGED << dmesg_ptr, timestamp, mtimestamp, klog, oom, msg_count,
                  msg_string, served >>
  /\ UNCHANGED flash

(***************************************************************************)
(* sysfs_get_msg_count, lines 186-193                                      *)
(***************************************************************************)
GetMsgCountReturn ==
  /\ \/ dmesg_pc = "return"
     \/ dmesg_pc = "loop" /\ klog_sp >= Lines(klog)
  /\ timestamp' = cur_dmesg.sec
  /\ mtimestamp' = cur_dmesg.msec
  /\ dmesg_ptr' = IF dmesg_list = << >> THEN NULL ELSE 1
  /\ msg_count' = dmesg_count
  /\ msg_string' = "none"
  /\ served' = 0
  /\ dmesg_pc' = "idle"
  /\ UNCHANGED << dmesg_count, dmesg_list, dmesg_locals, allocated >>
  /\ UNCHANGED flash

(***************************************************************************)
(* sysfs_get_msg_string, lines 199-212.  With dmesg_ptr null line 203      *)
(* takes the address of a member of no object: the call returns a pointer  *)
(* to no message, or the process is stopped.                               *)
(***************************************************************************)
sysfs_get_msg_string ==
  /\ dmesg_pc = "idle"
  /\ IF dmesg_ptr \in 1..Len(dmesg_list)
       THEN /\ msg_string' = dmesg_list[dmesg_ptr].msg
            /\ dmesg_ptr' = IF dmesg_ptr < Len(dmesg_list) THEN dmesg_ptr + 1 ELSE NULL
            /\ served' = served + 1
            /\ UNCHANGED dmesg_pc
       ELSE \/ /\ msg_string' = "invalid"
               /\ UNCHANGED << dmesg_pc, dmesg_ptr, served >>
            \/ /\ dmesg_pc' = "fault"
               /\ UNCHANGED << msg_string, dmesg_ptr, served >>
  /\ UNCHANGED << dmesg_count, dmesg_list, timestamp, mtimestamp, dmesg_locals,
                  msg_count, allocated >>
  /\ UNCHANGED flash

(***************************************************************************)
(* sysfs_msg_reset, lines 249-257                                          *)
(***************************************************************************)
sysfs_msg_reset ==
  /\ dmesg_pc = "idle"
  /\ mtimestamp' = 0
  /\ \E u \in Uptimes \cup { timestamp } : timestamp' = u
  /\ UNCHANGED << dmesg_pc, dmesg_count, dmesg_list, dmesg_ptr, dmesg_locals,
                  dmesg_hist >>
  /\ UNCHANGED flash

DmesgNext ==
  \/ GetMsgCountRead
  \/ GetMsgCountLine
  \/ GetMsgCountReturn
  \/ sysfs_get_msg_string
  \/ sysfs_msg_reset

DmesgInit == Started({ NoSession })

DmesgSpec == DmesgInit /\ [][DmesgNext]_vars

(***************************************************************************)
(* Reading the history                                                     *)
(***************************************************************************)
IsCheck(e, st) == e.op = "check" /\ e.st = st

\* a call of mxt_check_bootloader(ctx, st) returned r
Returned(e, st, r) == IsCheck(e, st) /\ e.val = r

IsFrame(e) == e.op = "frame"

IsWrite(e) == e.op \in { "unlock", "frame" }

Indices == 1..Len(log)

\* the history holds every event so far
Complete == Len(log) < MaxLog

\* the last frame write before event i
LastFrameBefore(i) ==
  CHOOSE j \in 1..(i - 1) :
    /\ IsFrame(log[j])
    /\ \A k \in (j + 1)..(i - 1) : ~ IsFrame(log[k])

\* no transport write after event i
NoWriteAfter(i) == \A j \in (i + 1)..Len(log) : ~ IsWrite(log[j])

Done == pc = "done"

(***************************************************************************)
(* C1: every frame write is immediately preceded by a WAITING_FRAME_DATA   *)
(* handshake that returned success and immediately followed by a           *)
(* FRAME_CRC_PASS handshake; between two frame writes a FRAME_CRC_PASS     *)
(* handshake has returned.                                                 *)
(***************************************************************************)
C1_FrameHandshakes ==
  \A i \in Indices :
    IsFrame(log[i]) =>
      /\ i > 1
      /\ Returned(log[i - 1], MXT_WAITING_FRAME_DATA, 0)
      /\ i < Len(log) => IsCheck(log[i + 1], MXT_FRAME_CRC_PASS)
      /\ (i = Len(log) /\ Complete) =>
           (pc = "check_bootloader" /\ state = MXT_FRAME_CRC_PASS)
      /\ \A j \in (i + 1)..Len(log) :
           IsFrame(log[j]) =>
             \E k \in (i + 1)..(j - 1) :
               IsCheck(log[k], MXT_FRAME_CRC_PASS) /\ log[k].val # RECHECK

\* two frames of the image were written and the session has returned
C1_Witness ==
  /\ Done
  /\ \E i, j \in Indices :
       i < j /\ IsFrame(log[i]) /\ IsFrame(log[j]) /\ log[i].pos < log[j].pos

(***************************************************************************)
(* C2: the bytes of one frame of the image (the frame that ends at one     *)
(* position of the file) are written to the transport at most twice.       *)
(***************************************************************************)
C2_AtMostTwoWrites ==
  \A i \in Indices :
    IsFrame(log[i]) =>
      Cardinality({ j \in Indices : IsFrame(log[j]) /\ log[j].pos = log[i].pos }) <= 2

(***************************************************************************)
(* C3: the retry allowance is reset for each new frame: once a             *)
(* retransmitted frame has passed its CRC handshake the driver goes back   *)
(* to the image with frame_retry 0, and the next frame written is a new    *)
(* frame of the image, written with retry counter 0.                       *)
(***************************************************************************)
C3_RetryResetPerFrame ==
  /\ \A i \in Indices :
       (/\ IsFrame(log[i]) /\ log[i].n = 1
        /\ i < Len(log) /\ Returned(log[i + 1], MXT_FRAME_CRC_PASS, 0)) =>
         \A j \in (i + 2)..Len(log) :
           IsFrame(log[j]) => (log[j].n = 0 /\ log[j].pos # log[i].pos)
  /\ (/\ pc = "frame_loop" /\ Complete /\ Len(log) > 0
      /\ Returned(log[Len(log)], MXT_FRAME_CRC_PASS, 0)) => frame_retry = 0

(***************************************************************************)
(* C4: when the FRAME_CRC_PASS handshake returns FrameCrcFail (-4) for a   *)
(* frame not yet retried, nothing is read from the image and the next      *)
(* transport write is the same bytes; when it returns FrameCrcFail for a   *)
(* frame already retried, the session returns failure and no transport     *)
(* write follows.                                                          *)
(***************************************************************************)
C4_CrcFailRetry ==
  \A i \in Indices :
    Returned(log[i], MXT_FRAME_CRC_PASS, -4) =>
      LET w == LastFrameBefore(i)
      IN  IF log[w].n = 0
            THEN /\ \A j \in (i + 1)..Len(log) :
                      (IsWrite(log[j]) /\ \A k \in (i + 1)..(j - 1) : ~ IsWrite(log[k])) =>
                        /\ IsFrame(log[j])
                        /\ log[j].data = log[w].data
                        /\ log[j].pos = log[w].pos
                        /\ log[j].n = 1
                 /\ (Complete /\ NoWriteAfter(i)) =>
                      /\ fpos = log[w].pos
                      /\ SubSeq(buffer, 1, frame_size) = log[w].data
            ELSE /\ i = Len(log)
                 /\ pc \in { "check_crc", "done" }
                 /\ Done => result = -1

\* a frame failed its CRC handshake and was written again, then failed again
C4_Witness ==
  \E i, j \in Indices :
    /\ i < j
    /\ Returned(log[i], MXT_FRAME_CRC_PASS, -4)
    /\ Returned(log[j], MXT_FRAME_CRC_PASS, -4)
    /\ IsFrame(log[j - 1]) /\ log[j - 1].n = 1
    /\ Done

(***************************************************************************)
(* C5: the unlock sequence [0xDC, 0xAA] is written if and only if the      *)
(* WAITING_BOOTLOAD_CMD handshake returned 0, at most once and before any  *)
(* frame; after AlreadyUnlocked (-3) no unlock is written and the next     *)
(* transport operation is the WAITING_FRAME_DATA handshake; after any      *)
(* other outcome the session returns failure and nothing is written.       *)
(***************************************************************************)
C5_Unlock ==
  /\ \A i \in Indices :
       log[i].op = "unlock" =>
         /\ log[i].data = << 220, 170 >>
         /\ i > 1 /\ Returned(log[i - 1], MXT_WAITING_BOOTLOAD_CMD, 0)
         /\ \A j \in Indices : log[j].op = "unlock" => j = i
         /\ \A j \in Indices : IsFrame(log[j]) => j > i
  /\ \A i \in Indices :
       (IsCheck(log[i], MXT_WAITING_BOOTLOAD_CMD) /\ log[i].val # RECHECK) =>
         CASE log[i].val = 0 ->
                /\ i < Len(log) => log[i + 1].op = "unlock"
                /\ i = Len(log) => pc = "unlock"
           [] log[i].val = -3 ->
                /\ \A j \in Indices : log[j].op # "unlock"
                /\ i < Len(log) => IsCheck(log[i + 1], MXT_WAITING_FRAME_DATA)
           [] OTHER ->
                /\ i = Len(log)
                /\ \A j \in Indices : ~ IsWrite(log[j])
                /\ pc \in { "unlock", "done" }
                /\ Done => result = -1

\* the bootloader was unlocked and a frame was written after it
C5_Witness ==
  \E i, j \in Indices : i < j /\ log[i].op = "unlock" /\ IsFrame(log[j])

(***************************************************************************)
(* C6: when a non-empty expected version equals the version read before    *)
(* the reset, the session returns a non-success value and issues no reset  *)
(* into the bootloader, no unlock and no frame.                            *)
(***************************************************************************)
C6_VersionGate ==
  (version # "" /\ pre_version = version) =>
    /\ Done /\ result # 0
    /\ ~ reset_issued
    /\ \A i \in Indices : ~ IsWrite(log[i])

\* the chip already runs the expected version
C6_Witness == version # "" /\ pre_version = version /\ Done

(***************************************************************************)
(* C7 as stated: whenever an expected version was supplied and the session *)
(* returns 0, the version read after the frames equals it.                 *)
(***************************************************************************)
C7_VerifiedOnSuccess ==
  (Done /\ result = 0 /\ version # "") => post_version = version

(***************************************************************************)
(* C7 as amended: whenever an expected version was supplied and the        *)
(* session returns 0, either ctx.appmode_address is negative (no           *)
(* application-mode address to return to: no version is read) or the       *)
(* version read after the frames equals the expected version; a version    *)
(* read after the frames that differs yields a non-success value.          *)
(***************************************************************************)
C7_VerifiedUnlessNoAppAddress ==
  /\ (Done /\ result = 0 /\ version # "") =>
       (appmode_address < 0 \/ post_version = version)
  /\ (Done /\ version # "" /\ post_version # "" /\ post_version # version) =>
       result # 0

\* the version read after the frames did not match and the session failed
C7_Witness ==
  Done /\ version # "" /\ post_version # "" /\ post_version # version /\ result = -1

(***************************************************************************)
(* C8: every flash session eventually returns.                             *)
(***************************************************************************)
C8_Terminates == <>Done

(***************************************************************************)
(* C9: in every terminal state of a session that opened the image the      *)
(* file is closed.                                                         *)
(***************************************************************************)
C9_FileClosedOnExit == (Done /\ opened) => ~ fp_open

(***************************************************************************)
(* C10: a failed transport read, a failed transport write and an           *)
(* InvalidState (-2) outcome of a handshake end the session with failure,  *)
(* with no transport write after them.                                     *)
(***************************************************************************)
C10_OnlyCrcFailRetried ==
  \A i \in Indices :
    (\/ (log[i].op = "check" /\ log[i].val \in { -1, -2 })
     \/ (IsWrite(log[i]) /\ log[i].val = -1)) =>
      /\ NoWriteAfter(i)
      /\ Done => result # 0

(***************************************************************************)
(* Reading the image                                                       *)
(***************************************************************************)
\* unit k of the file: characters 2k-1 and 2k
UnitIsHex(f, k) == IsHexChar(f[2 * k - 1]) /\ IsHexChar(f[2 * k])

UnitValue(f, k) == 16 * f[2 * k - 1] + f[2 * k]

\* the units of the file that a frame of n bytes ending at position pos was
\* read from
UnitsOf(pos, n) == ((pos \div 2) - n + 1)..(pos \div 2)

\* bytes are the bytes of n whole units of the file that end at position pos
WholeFrame(bytes, pos) ==
  LET n == Len(bytes)
  IN  /\ pos <= Len(file)
      /\ pos >= 2 * n
      /\ \A k \in 1..n :
           /\ bytes[k] \in 0..255
           /\ UnitIsHex(file, (pos \div 2) - n + k) =>
                bytes[k] = UnitValue(file, (pos \div 2) - n + k)

(***************************************************************************)
(* C11: the image reader never emits a partial frame.  End of file at the  *)
(* first byte of a frame ends the frame loop cleanly: the image is closed  *)
(* and the steps after the frames follow.  End of file inside a frame      *)
(* makes the session return -1, and no frame is written that ends after    *)
(* the place where the truncated frame began.  The frame in the buffer     *)
(* spans whole units inside the file, and every frame handed to the        *)
(* transport is the bytes of whole units of the file (a frame written is   *)
(* the last event of the history in the state that follows its write).     *)
(***************************************************************************)
C11_NoPartialFrame ==
  /\ parsed = "end" =>
       /\ feof
       /\ pc \in { "close", "sent" } \/ (Done /\ ~ fp_open)
       /\ \A i \in Indices : IsFrame(log[i]) => log[i].pos <= frame_pos
  /\ parsed = "truncated" =>
       /\ Done /\ result = -1
       /\ \A i \in Indices : IsFrame(log[i]) => log[i].pos <= frame_pos
  /\ parsed = "frame" =>
       /\ fpos = frame_pos + 2 * Len(buffer)
       /\ fpos <= Len(file)
  /\ (Len(log) > 0 /\ Complete /\ IsFrame(log[Len(log)])) =>
       WholeFrame(log[Len(log)].data, log[Len(log)].pos)

\* a frame was written and the file ended inside the frame after it
C11_Witness ==
  /\ Done /\ parsed = "truncated" /\ feof
  /\ \E i \in Indices : IsFrame(log[i])

(***************************************************************************)
(* C12: a unit of the image that is no pair of hexadecimal digits makes    *)
(* the session fail, and no frame read from such a unit is written to the  *)
(* transport.                                                              *)
(***************************************************************************)
C12_BadHexRejected ==
  /\ \A i \in Indices :
       IsFrame(log[i]) =>
         \A k \in UnitsOf(log[i].pos, Len(log[i].data)) : UnitIsHex(file, k)
  /\ (\E k \in 1..(fpos \div 2) : ~ UnitIsHex(file, k)) => (Done /\ result # 0)

\* the value of the two header bytes of a frame
Header(bytes) == bytes[1] * 256 + bytes[2]

(***************************************************************************)
(* C13: a frame of size (buffer[0]<<8 | buffer[1]) + 2 = 1024 is accepted, *)
(* a frame of size 1025 or more makes the session return -1 with nothing   *)
(* read after its header and nothing written; the buffer never holds more  *)
(* than 1024 bytes and no frame write is longer than 1024 bytes.           *)
(***************************************************************************)
C13_FrameSizeLimit ==
  /\ Len(buffer) <= 1024
  /\ frame_size <= 1024
  /\ \A i \in Indices : IsFrame(log[i]) => Len(log[i].data) <= 1024
  /\ parsed = "too_big" =>
       /\ Len(buffer) = 2
       /\ Header(buffer) + 2 >= 1025
       /\ fpos = frame_pos + 4
       /\ Done /\ result = -1
       /\ \A i \in Indices : IsFrame(log[i]) => log[i].pos <= frame_pos
  /\ (parsed \in { "frame", "truncated" } /\ Len(buffer) >= 2) =>
       Header(buffer) + 2 <= 1024

\* a frame of 1024 bytes was written
C13_Witness == \E i \in Indices : IsFrame(log[i]) /\ Len(log[i].data) = 1024

Supplied == i2c_adapter >= 0 /\ i2c_address > 0

\* the application-mode addresses of the translation table
TableAddresses == { 74, 75, 76, 77, 90, 91 }

\* the bootloader address of the table for address a and family id fam
Translated(a, fam) ==
  IF a \in { 74, 75 } THEN (IF fam >= 162 THEN a - 36 ELSE a - 38) ELSE a - 38

(***************************************************************************)
(* C15: once the frames are under way in a session with a supplied         *)
(* address a: when a is 0x4A, 0x4B, 0x4C, 0x4D, 0x5A or 0x5B the recorded  *)
(* bootloader address is a-0x24 (0x4A, 0x4B with family id >= 0xA2) or     *)
(* a-0x26, the application-mode address is a, and the two differ; for any  *)
(* other a the bootloader address is a, no application-mode address is     *)
(* recorded (-1) and no reset was issued.  The lookup gives the table for  *)
(* every address of it and -1 for the other supplied addresses.            *)
(***************************************************************************)
C15_AddressTranslation ==
  /\ (Supplied /\ Len(log) > 0) =>
       IF i2c_address \in TableAddresses
         THEN /\ bootloader_address = Translated(i2c_address, family_id)
              /\ appmode_address = i2c_address
              /\ bootloader_address # appmode_address
              /\ reset_issued
              /\ pc \in { "check_bootloader", "unlock", "frame_loop", "write_frame",
                           "check_crc", "close", "sent" } =>
                   slave_address = bootloader_address
         ELSE /\ bootloader_address = i2c_address
              /\ appmode_address = -1
              /\ ~ reset_issued
              /\ pre_version = ""
  /\ \A a \in TableAddresses \cup Addresses, fam \in FamilyIds :
       lookup_bootloader_addr(a, fam) =
         IF a \in TableAddresses THEN Translated(a, fam) ELSE -1

\* address 0x4A of a chip of family 0xA2: frames written at address 0x26
C15_Witness ==
  /\ Supplied /\ i2c_address = 74 /\ family_id = 162
  /\ bootloader_address = 38 /\ slave_address = 38
  /\ \E i \in Indices : IsFrame(log[i])

(***************************************************************************)
(* The decision table of the handshake                                     *)
(***************************************************************************)
\* v & 0xC0
HighBits(v) == (v \div 64) * 64

\* the outcome the table gives for expected state e and status byte v:
\* RECHECK for a re-read, 0 success, -3 AlreadyUnlocked, -4 FrameCrcFail,
\* -2 InvalidState
Table(e, v) ==
  CASE e = 192 -> (CASE HighBits(v) = 64 -> RECHECK
                     [] HighBits(v) = 128 -> -3
                     [] HighBits(v) = 192 -> 0
                     [] OTHER -> -2)
    [] e = 128 -> (CASE v = 4 -> RECHECK
                     [] v # 4 /\ HighBits(v) = 128 -> 0
                     [] OTHER -> -2)
    [] e = 4 -> (CASE v = 2 -> RECHECK
                   [] v = 3 -> -4
                   [] v = 4 -> 0
                   [] OTHER -> -2)

\* a call of mxt_check_bootloader has just returned after a read that succeeded
JustReturned == pc \in { "unlock", "write_frame", "check_crc" } /\ ret # -1

(***************************************************************************)
(* C16: mxt_check_bootloader implements the decision table: for each of    *)
(* the three expected states and every status byte 0..255 the code's       *)
(* outcome is the table's (the code's function, compared in the states     *)
(* before the session's first step); the value a call returns is the       *)
(* table's outcome for the byte it read last, a success return comes with  *)
(* a byte of the success row, and a transient observation is never         *)
(* returned.                                                               *)
(***************************************************************************)
C16_DecisionTable ==
  /\ pc = "flash" =>
       \A e \in { 192, 128, 4 }, v \in 0..255 : CheckStatus(e, v) = Table(e, v)
  /\ JustReturned =>
       /\ ret = Table(state, val_read)
       /\ ret \in { 0, -2, -3, -4 }
       /\ ret = 0 =>
            CASE state = 192 -> HighBits(val_read) = 192
              [] state = 128 -> HighBits(val_read) = 128 /\ val_read # 4
              [] OTHER -> val_read = 4
  /\ \A i \in Indices :
       log[i].op = "check" => log[i].val \in { RECHECK, 0, -1, -2, -3, -4 }
  /\ (pc \in { "unlock", "write_frame", "check_crc" }) => ret # RECHECK

\* a FRAME_CRC_PASS handshake re-read after a transient status and then
\* returned success on status 0x04
C16_Witness ==
  /\ pc = "check_crc" /\ ret = 0 /\ val_read = 4
  /\ Len(log) >= 2
  /\ Returned(log[Len(log)], MXT_FRAME_CRC_PASS, 0)
  /\ Returned(log[Len(log) - 1], MXT_FRAME_CRC_PASS, RECHECK)

(***************************************************************************)
(* Status reads                                                            *)
(***************************************************************************)
IsRead(e) == e.op = "check"

\* the reads that asked for three bytes
ThreeByteReads == { i \in Indices : IsRead(log[i]) /\ log[i].n = 3 }

(***************************************************************************)
(* C17: the three-byte read is issued at most once in a session, by a      *)
(* WAITING_FRAME_DATA handshake, with extended-ID mode on and before any   *)
(* other WAITING_FRAME_DATA read; every other status read asks for one     *)
(* byte; once the three-byte read has succeeded have_bootloader_version    *)
(* stays true, and while it is true no read asks for three bytes.          *)
(***************************************************************************)
C17_IdentityLatchedOnce ==
  /\ Cardinality(ThreeByteReads) <= 1
  /\ \A i \in Indices :
       IsRead(log[i]) =>
         /\ log[i].n \in { 1, 3 }
         /\ log[i].n = 3 =>
              /\ log[i].st = MXT_WAITING_FRAME_DATA
              /\ extended_id_mode
              /\ \A j \in 1..(i - 1) : ~ IsCheck(log[j], MXT_WAITING_FRAME_DATA)
              /\ log[i].val # -1 => have_bootloader_version
  /\ (pc = "check_bootloader" /\ ThreeByteRead(state)) =>
       /\ ThreeByteReads = { }
       /\ extended_id_mode /\ ~ have_bootloader_version
       /\ state = MXT_WAITING_FRAME_DATA
  /\ (have_bootloader_version /\ pc = "check_bootloader") => ~ ThreeByteRead(state)

\* the three-byte read met a transient status and was followed by a
\* one-byte re-read, and a later WAITING_FRAME_DATA handshake read one byte
C17_Witness ==
  \E i, j \in Indices :
    /\ i + 1 < j
    /\ IsCheck(log[i], MXT_WAITING_FRAME_DATA) /\ log[i].n = 3 /\ log[i].val = RECHECK
    /\ IsCheck(log[i + 1], MXT_WAITING_FRAME_DATA) /\ log[i + 1].n = 1
    /\ IsCheck(log[j], MXT_WAITING_FRAME_DATA) /\ log[j].n = 1

(***************************************************************************)
(* C18: when the WAITING_BOOTLOAD_CMD handshake has returned success on    *)
(* status byte v, extended-ID mode is on and the identity unlatched if     *)
(* bit 0x20 of v is set; if the bit is clear the identity is latched and   *)
(* extended-ID mode is off, and no later read asks for three bytes.        *)
(***************************************************************************)
C18_ExtendedIdFromBit ==
  /\ (pc = "unlock" /\ ret = 0) =>
       IF (val_read \div 32) % 2 = 1
         THEN extended_id_mode /\ ~ have_bootloader_version
         ELSE have_bootloader_version /\ ~ extended_id_mode
  /\ (~ extended_id_mode) => ThreeByteReads = { }

C20_OneTransientPerCall ==
  \A i \in Indices :
    (i < Len(log) /\ IsRead(log[i]) /\ log[i].val = RECHECK) =>
      ~ (IsRead(log[i + 1]) /\ log[i + 1].val = RECHECK)

(***************************************************************************)
(* C21: the progress event of a frame that passed its CRC handshake is     *)
(* emitted at the informational level exactly when the number of frames    *)
(* that have passed so far in the session is a positive multiple of 20     *)
(* (first with the 20th frame that passed), and at the verbose level with   *)
(* every other frame that passed.                                          *)
(***************************************************************************)
C21_InfoEveryTwentyPasses ==
  (sent_level # "none" /\ frame < FrameNoKept(file)) =>
    (sent_level = "LOG_INFO" <=> (passed > 0 /\ passed % 20 = 0))

(***************************************************************************)
(* Reading the message list                                                *)
(***************************************************************************)
\* The call of sysfs_get_msg_count that returned last returned n >= 0, and
\* since then: dmesg_count is n and the number of nodes in the list, n is at
\* most limit, no node but those of the list is allocated, the nodes are in
\* the order of the kernel log, and the k-th call of sysfs_get_msg_string,
\* k <= n, returned the message of node k and left the cursor at node k + 1,
\* null after node n.
MessageList(limit) ==
  (dmesg_pc = "idle" /\ msg_count >= 0) =>
    /\ dmesg_count = msg_count
    /\ Len(dmesg_list) = msg_count
    /\ msg_count <= limit
    /\ allocated = Len(dmesg_list)
    /\ served <= msg_count
    /\ dmesg_ptr = IF served < msg_count THEN served + 1 ELSE NULL
    /\ (served > 0 /\ msg_string # "invalid") => msg_string = dmesg_list[served].msg
    /\ \A i \in 1..(Len(dmesg_list) - 1) : dmesg_list[i].at < dmesg_list[i + 1].at

(***************************************************************************)
(* C22: each call of sysfs_get_msg_count that returns n >= 0 leaves        *)
(* dmesg_count equal to n and to the number of nodes reachable from        *)
(* dmesg_list, with n at most 500, the list rebuilt from empty (the nodes  *)
(* of the call before freed) and dmesg_ptr at the head of the list, so     *)
(* that exactly n consecutive calls of sysfs_get_msg_string are served     *)
(* from non-null nodes in the order of the kernel log.                     *)
(***************************************************************************)
C22_MessageList == MessageList(500)

====
